---- MODULE Spec2Model ----
(***************************************************************************)
(* The F1 evaluator (src/app.py): Streamlit sessions that score a          *)
(* submission and append one row per selected mode to a CSV log kept as a  *)
(* single blob in a GitHub repository.  The append is an optimistic        *)
(* read / put-with-sha loop; the log is read for display through a         *)
(* process-wide cache with a time to live.                                 *)
(***************************************************************************)
EXTENDS Integers, Sequences, FiniteSets, TLC

(***************************************************************************)
(* Bounds of the model and constants of the program.                       *)
(***************************************************************************)
\* total number of script runs (reruns of app.py) over all sessions
MaxRuns == 2

\* `for attempt in range(5)`
RetryLimit == 5

\* Browser sessions of the one Streamlit process that serves the app: each
\* has its own st.session_state, all share the st.cache_data caches.
Sessions == {"s1", "s2"}

MODE_OPTIONS == <<"Presencial", "Online">>

\* What st.multiselect returns: a selection of the options without
\* repetition (of the two orders of a double selection, one is modelled).
ModeSelections ==
    { <<>>, <<"Online">>, <<"Presencial">>, <<"Presencial", "Online">> }

\* str.lower() on the mode labels and on the names of the model
Lower(m) == IF m = "Presencial" THEN "presencial"
            ELSE IF m = "Online" THEN "online"
            ELSE IF m = "Ana" THEN "ana"
            ELSE IF m = "Ana " THEN "ana " ELSE m

\* Texts typed in the name box, and str.strip() on the names of the model.
UserInputs == {"", "ana ", "bob"}
Strip(u) == IF u = "ana " THEN "ana"
            ELSE IF u = "Ana " THEN "Ana" ELSE u

\* Uploaded files.  An upload is described by the sha256 of its bytes and by
\* what the evaluation of lines 300-376 makes of it against the ground
\* truth: a score (f1_w, as an integer number of hundredths) over n matched
\* ids, or an abort.
NoUpload == [file_sha256 |-> "", eval |-> "none", f1 |-> 0, n |-> 0]
Uploads ==
    { [file_sha256 |-> "fa", eval |-> "scored", f1 |-> 80, n |-> 2],
      [file_sha256 |-> "fx", eval |-> "abort",  f1 |-> 0,  n |-> 0] }

\* Optional values: None is the empty sequence, Some(x) a one-element one.
None == <<>>
Some(x) == <<x>>
IsNone(o) == o = <<>>
Val(o) == o[1]

(***************************************************************************)
(* The log as a table and as bytes.                                        *)
(***************************************************************************)
LogColumns == <<"timestamp_utc", "user_id", "file_sha256", "n_ids", "f1_weighted", "mode">>

ColumnsOf(r) == DOMAIN r

\* DataFrame.to_csv(index=False): a header line with the column names, then
\* one line of values per row, in column order.
to_csv(df) ==
    <<LogColumns>> \o [i \in 1..Len(df) |-> [j \in 1..Len(LogColumns) |-> df[i][LogColumns[j]]]]

\* pd.read_csv on the bytes of the blob: the first line names the columns,
\* every following line is a row.
read_csv(data) ==
    [i \in 1..(Len(data) - 1) |->
        [c \in {data[1][j] : j \in 1..Len(data[1])} |->
            LET j == CHOOSE k \in 1..Len(data[1]) : data[1][k] = c
            IN  data[i + 1][j]]]

\* `if col not in df.columns: df[col] = ""`, for every expected column
AlignColumns(df) ==
    [i \in 1..Len(df) |->
        [c \in ColumnsOf(df[i]) \cup {LogColumns[j] : j \in 1..Len(LogColumns)} |->
            IF c \in ColumnsOf(df[i]) THEN df[i][c] ELSE ""]]

(***************************************************************************)
(* State.                                                                  *)
(***************************************************************************)
VARIABLES
    blob,           \* the log file in the repository: exists, content, sha
    cache,          \* the st.cache_data entry of read_log_from_github, or None
    session_state,  \* per session: the dedup keys set to True in st.session_state
    pc,             \* per session: where the script run is
    run,            \* per session: the script's variables of the current run
    call,           \* per session: the variables of append_log_row_to_github
    clock,          \* script runs started so far; the time of timestamp_utc
    acked,          \* rows whose append returned after a successful put, in order
    history,        \* the table handed to _render_leaderboard
    leaderboard,    \* the table _render_leaderboard displays, or None before
    gt_rows,        \* the rows of the ground truth file
    user_rows,      \* the rows of the uploaded file
    merged          \* the outcome of the evaluation's join, or None before

\* The variables of the publishing of results, and those of the two
\* computations on tables (leaderboard, join), which are checked on tables
\* of their own.
appVars == <<blob, cache, session_state, pc, run, call, clock, acked>>
tableVars == <<history, leaderboard, gt_rows, user_rows, merged>>
vars == <<appVars, tableVars>>

NoRow ==
    [timestamp_utc |-> 0, user_id |-> "", file_sha256 |-> "", n_ids |-> 0,
     f1_weighted |-> 0, mode |-> ""]

\* The variables of a call: the row, the loop counter, the table and sha of
\* the attempt's read, the last exception caught and how the call ended;
\* reads and puts count the requests the call has sent, and entry_cleared
\* tells whether the clear() of line 155 found an entry in the cache.
NoCall ==
    [row |-> NoRow, attempt |-> 0, df |-> None, sha |-> 0, last_exc |-> "none",
     result |-> "none", reads |-> 0, puts |-> 0, entry_cleared |-> FALSE]

\* The script's variables before anything is assigned: user_id, modes and
\* errors are always bound; ok_modes, file_sha256, f1_w, merged and
\* timestamp_utc only inside the evaluation block (lines 300-382).
\* f1_shown is the score that st.success has put on the page (line 364).
NoRun ==
    [user_id |-> "", modes |-> <<>>, evaluated |-> FALSE, upload |-> NoUpload,
     f1_shown |-> None, timestamp_utc |-> 0, i |-> 1, ok_modes |-> <<>>,
     errors |-> <<>>]

\* The process has started, no session has run the script yet.
InitApp ==
    /\ blob = [exists |-> FALSE, content |-> <<>>, sha |-> 0]
    /\ cache = None
    /\ session_state = [s \in Sessions |-> {}]
    /\ pc = [s \in Sessions |-> "idle"]
    /\ run = [s \in Sessions |-> NoRun]
    /\ call = [s \in Sessions |-> NoCall]
    /\ clock = 0
    /\ acked = <<>>

\* No table is being rendered or joined.
NoTables ==
    /\ history = <<>> /\ leaderboard = None
    /\ gt_rows = <<>> /\ user_rows = <<>> /\ merged = None

Init == InitApp /\ NoTables

(***************************************************************************)
(* The blob store, as the program uses it.                                 *)
(***************************************************************************)
\* _read_log_from_github_nocache on a 2xx or 404 answer: (df, sha)
read_log_from_github_nocache(b) ==
    IF ~b.exists THEN [df |-> None, sha |-> 0]
    ELSE IF b.content = <<>> THEN [df |-> Some(<<>>), sha |-> b.sha]
    ELSE [df |-> Some(read_csv(b.content)), sha |-> b.sha]

\* Answers of the GitHub contents API to the GET of the log: "ok" stands for
\* 200 or 404, the others make requests raise (raise_for_status, timeouts).
GetAnswers == {"ok", "transient", "auth"}

\* The store accepts a put when the sha sent is the sha of the blob, or
\* when none is sent and the blob does not exist.
PutPrecondition(b, sha) == IF b.exists THEN sha = b.sha ELSE sha = 0

\* Answers to the PUT: 2xx only when the precondition holds; 409, a
\* transient failure or an authentication failure at any time.
PutAnswers(b, sha) ==
    (IF PutPrecondition(b, sha) THEN {"ok"} ELSE {}) \cup {"conflict", "transient", "auth"}

\* _put_contents answered 2xx: the blob is replaced as a whole
put_contents(b, content_bytes) ==
    [exists |-> TRUE, content |-> content_bytes, sha |-> b.sha + 1]

\* read_log_from_github: the cached wrapper.  Returns the value for the
\* caller and the cache entry afterwards; a raise leaves the cache alone.
read_log_from_github(entry, b, answer) ==
    IF ~IsNone(entry) THEN [raised |-> FALSE, value |-> Val(entry), entry |-> entry]
    ELSE IF answer = "ok"
         THEN [raised |-> FALSE, value |-> read_log_from_github_nocache(b),
               entry |-> Some(read_log_from_github_nocache(b))]
         ELSE [raised |-> TRUE, value |-> [df |-> None, sha |-> 0], entry |-> entry]

\* Mutant of ClearCache: the entry is left in the cache.
ClearCache_Keep(entry) == entry

\* read_log_from_github.clear()
ClearCache(entry) == None

(***************************************************************************)
(* append_log_row_to_github, lines 125-191.                                *)
(***************************************************************************)
\* The name under which st.session_state remembers a logged row: the text
\* "logged_<file_sha256>_<f1_weighted>_<n_ids>_<mode>".
DedupKey(row) == <<"logged", row.file_sha256, row.f1_weighted, row.n_ids, row.mode>>

\* Mutant of NewDf: the row is not concatenated to the table read.
NewDf_OnlyRow(df, row) == <<row>>

\* The table that is put: a one-row table when the log does not exist, the
\* table read, aligned, with the row appended otherwise (lines 141-151).
NewDf(df, row) ==
    IF IsNone(df) THEN <<row>> ELSE Append(AlignColumns(Val(df)), row)

\* Mutant of Retried: transient failures are tried again as well.
Retried_Transient(exc) == exc \in {"conflict", "transient"}

\* Mutant of Retried: every exception is tried again.
Retried_All(exc) == TRUE

\* Which exceptions the loop catches to try again (`except RuntimeError`,
\* raised by _put_contents for a 409); any other leaves the loop.
Retried(exc) == exc = "conflict"

\* Lines 168-171: after the loop the last exception is raised.  (Without one
\* the function would go on to lines 173-191.)
AfterLoop(last_exc) == IF last_exc # "none" THEN "raise" ELSE "tail"

\* Mutant of OnException: the loop gives up one attempt early.
OnException_OneLess(c, exc) ==
    LET c1 == [c EXCEPT !.last_exc = exc]
    IN  IF Retried(exc) /\ c.attempt + 1 < RetryLimit - 1
        THEN [call |-> [c1 EXCEPT !.attempt = c.attempt + 1], pc |-> "read"]
        ELSE [call |-> [c1 EXCEPT !.result = exc], pc |-> "returned"]

\* Mutant of OnException: the loop makes one attempt more.
OnException_OneMore(c, exc) ==
    LET c1 == [c EXCEPT !.last_exc = exc]
    IN  IF Retried(exc) /\ c.attempt + 1 < RetryLimit + 1
        THEN [call |-> [c1 EXCEPT !.attempt = c.attempt + 1], pc |-> "read"]
        ELSE [call |-> [c1 EXCEPT !.result = exc], pc |-> "returned"]

\* Mutant of OnException: when the call gives up the exception is dropped
\* and the call returns.
OnException_Silent(c, exc) ==
    IF Retried(exc) /\ c.attempt + 1 < RetryLimit
    THEN [call |-> [c EXCEPT !.last_exc = exc, !.attempt = c.attempt + 1], pc |-> "read"]
    ELSE [call |-> c, pc |-> "returned"]

\* An exception exc caught in attempt number c.attempt (0-based): the call
\* variables afterwards and where the call goes next.
OnException(c, exc) ==
    LET c1 == [c EXCEPT !.last_exc = exc]
    IN  IF Retried(exc) /\ c.attempt + 1 < RetryLimit
        THEN [call |-> [c1 EXCEPT !.attempt = c.attempt + 1], pc |-> "read"]
        ELSE IF AfterLoop(exc) = "raise"
             THEN [call |-> [c1 EXCEPT !.result = exc], pc |-> "returned"]
             ELSE [call |-> c1, pc |-> "tail"]

\* The row built by the publish loop (lines 385-392) for the mode m.
BuildRow(r, m) ==
    [timestamp_utc |-> r.timestamp_utc, user_id |-> Strip(r.user_id),
     file_sha256 |-> r.upload.file_sha256, n_ids |-> r.upload.n,
     f1_weighted |-> r.upload.f1, mode |-> Lower(m)]

\* Mutant of SessionStateAfter: the key is set however the call ends (as the
\* `finally` of line 190 would).
SessionStateAfter_Finally(keys, row, outcome) ==
    IF outcome # "none" THEN keys \cup {DedupKey(row)} ELSE keys

\* Mutant of SessionStateAfter: the key is also set when the call gives up
\* after its last conflict.
SessionStateAfter_OnGiveUp(keys, row, outcome) ==
    IF outcome \in {"ok", "conflict"} THEN keys \cup {DedupKey(row)} ELSE keys

\* st.session_state once an attempt has ended with `outcome`: the key is set
\* on line 158, after the put went through, and nowhere on the paths that
\* catch an exception.
SessionStateAfter(keys, row, outcome) ==
    IF outcome = "ok" THEN keys \cup {DedupKey(row)} ELSE keys

\* Mutant of EnterCall: the call does not look the key up in the session.
EnterCall_NoDedup(r, keys) ==
    IF r.i > Len(r.modes) THEN [call |-> NoCall, pc |-> "report"]
    ELSE [call |-> [NoCall EXCEPT !.row = BuildRow(r, r.modes[r.i])], pc |-> "read"]

\* Lines 384-394 and 132-134: the publish loop reaches the mode number
\* r.i and calls append_log_row_to_github for it, which returns at once
\* when the key is marked; after the last mode the loop is over.  Gives the
\* call's variables and where the session is next.
EnterCall(r, keys) ==
    IF r.i > Len(r.modes) THEN [call |-> NoCall, pc |-> "report"]
    ELSE LET row == BuildRow(r, r.modes[r.i])
         IN  IF DedupKey(row) \in keys
             THEN [call |-> [NoCall EXCEPT !.row = row, !.result = "dedup"], pc |-> "returned"]
             ELSE [call |-> [NoCall EXCEPT !.row = row], pc |-> "read"]

\* Mutant of AttemptRead: a retry refreshes the sha and keeps the table of
\* the first attempt.
AttemptRead_KeepDf(c, got) ==
    IF c.attempt = 0 THEN [c EXCEPT !.df = got.df, !.sha = got.sha]
    ELSE [c EXCEPT !.sha = got.sha]

\* Mutant of AttemptRead: a retry refreshes the table and keeps the sha of
\* the first attempt.
AttemptRead_KeepSha(c, got) ==
    IF c.attempt = 0 THEN [c EXCEPT !.df = got.df, !.sha = got.sha]
    ELSE [c EXCEPT !.df = got.df]

\* Line 140: `df, sha = _read_log_from_github_nocache()`; every attempt
\* takes both the table and the sha from its own read.
AttemptRead(c, got) == [c EXCEPT !.df = got.df, !.sha = got.sha]

\* Line 140: the uncached read of one attempt.
ReadLog(s) ==
    /\ pc[s] = "read"
    /\ \E answer \in GetAnswers :
         LET c == [call[s] EXCEPT !.reads = @ + 1]
         IN  IF answer = "ok"
             THEN LET got == read_log_from_github_nocache(blob)
                  IN  /\ call' = [call EXCEPT ![s] = AttemptRead(c, got)]
                      /\ pc' = [pc EXCEPT ![s] = "put"]
                      /\ UNCHANGED session_state
             ELSE LET next == OnException(c, answer)
                  IN  /\ call' = [call EXCEPT ![s] = next.call]
                      /\ pc' = [pc EXCEPT ![s] = next.pc]
                      /\ session_state' =
                            [session_state EXCEPT ![s] =
                                SessionStateAfter(@, c.row, next.call.result)]
    /\ UNCHANGED <<blob, cache, run, clock, acked>>
    /\ UNCHANGED tableVars

\* Lines 141-159 and 160-171: the put of one attempt and what follows it.
PutLog(s) ==
    /\ pc[s] = "put"
    /\ \E answer \in PutAnswers(blob, call[s].sha) :
         LET c == [call[s] EXCEPT !.puts = @ + 1]
         IN  IF answer = "ok"
             THEN /\ blob' = put_contents(blob, to_csv(NewDf(c.df, c.row)))
                  /\ cache' = ClearCache(cache)
                  /\ session_state' =
                        [session_state EXCEPT ![s] = SessionStateAfter(@, c.row, "ok")]
                  /\ call' = [call EXCEPT ![s] =
                        [c EXCEPT !.result = "ok", !.entry_cleared = ~IsNone(cache)]]
                  /\ pc' = [pc EXCEPT ![s] = "returned"]
                  /\ acked' = Append(acked, [row |-> c.row, session |-> s])
             ELSE LET next == OnException(c, answer)
                  IN  /\ call' = [call EXCEPT ![s] = next.call]
                      /\ pc' = [pc EXCEPT ![s] = next.pc]
                      /\ session_state' =
                            [session_state EXCEPT ![s] =
                                SessionStateAfter(@, c.row, next.call.result)]
                      /\ UNCHANGED <<blob, cache, acked>>
    /\ UNCHANGED <<run, clock>>
    /\ UNCHANGED tableVars

(***************************************************************************)
(* The script, lines 267-405: one run per interaction of a session.        *)
(***************************************************************************)
Terminal == {"idle", "done", "stopped", "crashed"}

\* Mutant of StartRun: an evaluation error is shown and the script goes on
\* (no st.stop()).
StartRun_NoStop(s) ==
    /\ pc[s] \in Terminal
    /\ clock < MaxRuns
    /\ clock' = clock + 1
    /\ \E run_eval \in BOOLEAN, uploaded \in Uploads \cup {NoUpload},
          user_id \in UserInputs, modes \in ModeSelections :
         LET valid_name == Strip(user_id) # ""
             entered == run_eval /\ uploaded # NoUpload /\ valid_name /\ modes # <<>>
             r == [NoRun EXCEPT !.user_id = user_id, !.modes = modes,
                                !.evaluated = TRUE, !.upload = uploaded,
                                !.f1_shown = Some(uploaded.f1),
                                !.timestamp_utc = clock']
             next == EnterCall(r, session_state[s])
         IN  IF entered
             THEN /\ run' = [run EXCEPT ![s] = r]
                  /\ call' = [call EXCEPT ![s] = next.call]
                  /\ pc' = [pc EXCEPT ![s] = next.pc]
             ELSE /\ run' = [run EXCEPT ![s] = NoRun]
                  /\ call' = [call EXCEPT ![s] = NoCall]
                  /\ pc' = [pc EXCEPT ![s] = "crashed"]
    /\ UNCHANGED <<blob, cache, session_state, acked>>
    /\ UNCHANGED tableVars

\* Lines 267-394: the widgets are read and, when the button was pressed with
\* a file, a name and a mode, the submission is evaluated; then the publish
\* loop starts.  The loop is at module level: it also runs when the
\* evaluation was skipped, and then stops on the first name that only the
\* evaluation binds (timestamp_utc on line 386, or ok_modes on line 399
\* when no mode is selected).
StartRun(s) ==
    /\ pc[s] \in Terminal
    /\ clock < MaxRuns
    /\ clock' = clock + 1
    /\ \E run_eval \in BOOLEAN, uploaded \in Uploads \cup {NoUpload},
          user_id \in UserInputs, modes \in ModeSelections :
         LET valid_name == Strip(user_id) # ""
             entered == run_eval /\ uploaded # NoUpload /\ valid_name /\ modes # <<>>
             r == [NoRun EXCEPT !.user_id = user_id, !.modes = modes,
                                !.evaluated = TRUE, !.upload = uploaded,
                                !.f1_shown = Some(uploaded.f1),
                                !.timestamp_utc = clock']
             next == EnterCall(r, session_state[s])
         IN  IF entered /\ uploaded.eval = "abort"
             THEN \* st.error, show_public_leaderboards(), st.stop()
                  /\ run' = [run EXCEPT ![s] = NoRun]
                  /\ call' = [call EXCEPT ![s] = NoCall]
                  /\ pc' = [pc EXCEPT ![s] = "abort"]
             ELSE IF entered
             THEN /\ run' = [run EXCEPT ![s] = r]
                  /\ call' = [call EXCEPT ![s] = next.call]
                  /\ pc' = [pc EXCEPT ![s] = next.pc]
             ELSE \* NameError
                  /\ run' = [run EXCEPT ![s] = NoRun]
                  /\ call' = [call EXCEPT ![s] = NoCall]
                  /\ pc' = [pc EXCEPT ![s] = "crashed"]
    /\ UNCHANGED <<blob, cache, session_state, acked>>
    /\ UNCHANGED tableVars

\* Mutant of NextMode: an append that raises ends the publish loop.
NextMode_StopOnError(s) ==
    /\ pc[s] = "returned"
    /\ LET m == run[s].modes[run[s].i]
           r0 == [run[s] EXCEPT !.i = @ + 1]
           r == IF call[s].result \in {"ok", "dedup"}
                THEN [r0 EXCEPT !.ok_modes = Append(@, m)]
                ELSE [r0 EXCEPT !.errors = Append(@, m), !.i = Len(r0.modes) + 1]
           next == EnterCall(r, session_state[s])
       IN  /\ run' = [run EXCEPT ![s] = r]
           /\ call' = [call EXCEPT ![s] = next.call]
           /\ pc' = [pc EXCEPT ![s] = next.pc]
    /\ UNCHANGED <<blob, cache, session_state, clock, acked>>
    /\ UNCHANGED tableVars

\* Mutant of NextMode: the call is not inside a try, an append that raises
\* ends the script.
NextMode_Uncaught(s) ==
    /\ pc[s] = "returned"
    /\ LET m == run[s].modes[run[s].i]
           r == [run[s] EXCEPT !.i = @ + 1, !.ok_modes = Append(@, m)]
           next == EnterCall(r, session_state[s])
       IN  IF call[s].result \in {"ok", "dedup"}
           THEN /\ run' = [run EXCEPT ![s] = r]
                /\ call' = [call EXCEPT ![s] = next.call]
                /\ pc' = [pc EXCEPT ![s] = next.pc]
           ELSE /\ run' = [run EXCEPT ![s] = NoRun]
                /\ call' = [call EXCEPT ![s] = NoCall]
                /\ pc' = [pc EXCEPT ![s] = "crashed"]
    /\ UNCHANGED <<blob, cache, session_state, clock, acked>>
    /\ UNCHANGED tableVars

\* Lines 394-397 and back to 384: the call returned or raised; the mode is
\* added to ok_modes or to errors (the message text is left out) and the
\* loop goes on with the next mode, or ends.
NextMode(s) ==
    /\ pc[s] = "returned"
    /\ LET m == run[s].modes[run[s].i]
           r0 == [run[s] EXCEPT !.i = @ + 1]
           r == IF call[s].result \in {"ok", "dedup"}
                THEN [r0 EXCEPT !.ok_modes = Append(@, m)]
                ELSE [r0 EXCEPT !.errors = Append(@, m)]
           next == EnterCall(r, session_state[s])
       IN  /\ run' = [run EXCEPT ![s] = r]
           /\ call' = [call EXCEPT ![s] = next.call]
           /\ pc' = [pc EXCEPT ![s] = next.pc]
    /\ UNCHANGED <<blob, cache, session_state, clock, acked>>
    /\ UNCHANGED tableVars

\* Mutant of ShowLeaderboard: a log that is not found is created empty.
ShowLeaderboard_CreatesLog(s) ==
    /\ pc[s] \in {"report", "abort"}
    /\ \E answer \in GetAnswers :
         LET got == read_log_from_github(cache, blob, answer)
         IN  /\ cache' = got.entry
             /\ blob' = IF ~got.raised /\ IsNone(got.value.df)
                        THEN put_contents(blob, <<>>) ELSE blob
    /\ pc' = [pc EXCEPT ![s] = IF pc[s] = "abort" THEN "stopped" ELSE "done"]
    /\ run' = [run EXCEPT ![s] = NoRun]
    /\ call' = [call EXCEPT ![s] = NoCall]
    /\ UNCHANGED <<session_state, clock, acked>>
    /\ UNCHANGED tableVars

\* show_public_leaderboards (lines 230-263), at the end of the run (line
\* 405, after the report of lines 399-402) or before st.stop() in an
\* evaluation that aborts.
ShowLeaderboard(s) ==
    /\ pc[s] \in {"report", "abort"}
    /\ \E answer \in GetAnswers :
         LET got == read_log_from_github(cache, blob, answer)
         IN  cache' = got.entry
    /\ pc' = [pc EXCEPT ![s] = IF pc[s] = "abort" THEN "stopped" ELSE "done"]
    /\ run' = [run EXCEPT ![s] = NoRun]
    /\ call' = [call EXCEPT ![s] = NoCall]
    /\ UNCHANGED <<blob, session_state, clock, acked>>
    /\ UNCHANGED tableVars

\* The entry of read_log_from_github is older than its ttl of 10 seconds.
CacheExpire ==
    /\ ~IsNone(cache)
    /\ cache' = None
    /\ UNCHANGED <<blob, session_state, pc, run, call, clock, acked>>
    /\ UNCHANGED tableVars

Next ==
    \/ \E s \in Sessions : StartRun(s)
    \/ \E s \in Sessions : ReadLog(s)
    \/ \E s \in Sessions : PutLog(s)
    \/ \E s \in Sessions : NextMode(s)
    \/ \E s \in Sessions : ShowLeaderboard(s)
    \/ CacheExpire

Spec == Init /\ [][Next]_vars

(***************************************************************************)
(* _render_leaderboard, lines 195-227, on histories of its own.            *)
(***************************************************************************)
\* longest history rendered
MaxHistory == 3

\* The rows of the histories: names that differ in case and in blanks, two
\* scores, two instants (ISO texts in the file, which compare as the
\* instants do).
HistoryUsers == {"Ana ", "ana", "bob"}
HistoryScores == {60, 80}
HistoryTimes == {1, 2}
HistoryRows ==
    { [timestamp_utc |-> t, user_id |-> u, file_sha256 |-> "fa", n_ids |-> 2,
       f1_weighted |-> f, mode |-> "online"] :
        u \in HistoryUsers, f \in HistoryScores, t \in HistoryTimes }
Histories == UNION { [1..n -> HistoryRows] : n \in 0..MaxHistory }

\* The order of Python on the texts that occur as rank_key.
SortedStrings == <<"ana", "bob">>
StrRank(x) == CHOOSE i \in 1..Len(SortedStrings) : SortedStrings[i] = x

\* `df["rank_key"] = df["user_id"].astype(str).str.strip().str.lower()`
WithRankKey(df) ==
    [i \in 1..Len(df) |->
        [c \in ColumnsOf(df[i]) \cup {"rank_key"} |->
            IF c = "rank_key" THEN Lower(Strip(df[i].user_id)) ELSE df[i][c]]]

\* x sorts before y in one column
ValueBefore(col, x, y) == IF col = "rank_key" THEN StrRank(x) < StrRank(y) ELSE x < y

\* Row a sorts before row b under the columns by[k].col, each ascending or
\* descending, the earlier column deciding first.
RowBefore(a, b, by) ==
    \E k \in 1..Len(by) :
        /\ \A j \in 1..(k - 1) : a[by[j].col] = b[by[j].col]
        /\ IF by[k].ascending THEN ValueBefore(by[k].col, a[by[k].col], b[by[k].col])
                              ELSE ValueBefore(by[k].col, b[by[k].col], a[by[k].col])

\* DataFrame.sort_values(by, ascending): rows that agree on all the columns
\* keep their order.
sort_values(df, by) ==
    LET n == Len(df)
        pos(i) == 1 + Cardinality({j \in 1..n :
                        \/ RowBefore(df[j], df[i], by)
                        \/ ~RowBefore(df[i], df[j], by) /\ j < i})
    IN  [k \in 1..n |-> df[CHOOSE i \in 1..n : pos(i) = k]]

\* The rows of df at the positions in keep, in their order.
TakeRows(df, keep) ==
    [k \in 1..Cardinality(keep) |->
        df[CHOOSE i \in keep : Cardinality({j \in keep : j < i}) = k - 1]]

\* Mutant of drop_duplicates: the last row of every value is kept.
drop_duplicates_KeepLast(df, col) ==
    TakeRows(df, {i \in 1..Len(df) : \A j \in (i + 1)..Len(df) : df[j][col] # df[i][col]})

\* DataFrame.drop_duplicates(subset=[col], keep="first")
drop_duplicates(df, col) ==
    TakeRows(df, {i \in 1..Len(df) : \A j \in 1..(i - 1) : df[j][col] # df[i][col]})

\* df[[...]]: the columns cols of every row
Columns(df, cols) == [i \in 1..Len(df) |-> [c \in cols |-> df[i][c]]]

\* The table that _render_leaderboard hands to st.dataframe (before the
\* columns are renamed for display); nothing for an empty history.
render_leaderboard(df) ==
    IF df = <<>> THEN <<>>
    ELSE LET best_by_user ==
                 drop_duplicates(
                     sort_values(WithRankKey(AlignColumns(df)),
                                 << [col |-> "rank_key", ascending |-> TRUE],
                                    [col |-> "f1_weighted", ascending |-> FALSE],
                                    [col |-> "timestamp_utc", ascending |-> FALSE] >>),
                     "rank_key")
         IN  sort_values(
                 Columns(best_by_user, {"user_id", "f1_weighted", "n_ids", "timestamp_utc"}),
                 << [col |-> "f1_weighted", ascending |-> FALSE],
                    [col |-> "timestamp_utc", ascending |-> FALSE] >>)

InitLeaderboard ==
    /\ InitApp
    /\ history \in Histories /\ leaderboard = None
    /\ gt_rows = <<>> /\ user_rows = <<>> /\ merged = None

RenderLeaderboard ==
    /\ leaderboard = None
    /\ leaderboard' = Some(render_leaderboard(history))
    /\ UNCHANGED <<appVars, history, gt_rows, user_rows, merged>>

NextLeaderboard == RenderLeaderboard

SpecLeaderboard == InitLeaderboard /\ [][NextLeaderboard]_vars

(***************************************************************************)
(* The join of ground truth and submission, lines 77-83 and 321-359, on    *)
(* files of its own.  Cells are the texts of the CSV files.                *)
(***************************************************************************)
\* most rows of a ground truth file and of an uploaded file
MaxGt == 2
MaxUser == 2

\* An empty cell, which read_csv gives as NaN.
NA == ""

GtIds == {"1", "2"}
UserIds == {"1", "2", NA}
Targets == {"1", "A", NA}
Predictions == {"1", "A", NA}
GtFiles ==
    UNION { [1..n -> [id : GtIds, target : Targets]] : n \in 0..MaxGt }
UserFiles ==
    UNION { [1..n -> [id : UserIds, prediction : Predictions]] : n \in 0..MaxUser }

\* The dtype read_csv gives a column: a number type when every cell is a
\* number or empty (float64 when a cell is empty), object otherwise.
is_numeric_dtype(rows, col) == \A i \in 1..Len(rows) : rows[i][col] \in {"1", "2", "3", NA}
HasNA(rows, col) == \E i \in 1..Len(rows) : rows[i][col] = NA

\* str() of a float
FloatStr(x) == IF x = "1" THEN "1.0" ELSE IF x = "2" THEN "2.0"
               ELSE IF x = "3" THEN "3.0" ELSE IF x = NA THEN "nan" ELSE x

\* Series.astype(str) on the column col of df, whose dtype is that of the
\* column in the file read (rows): the numbers of a float64 column are
\* written with a decimal point and NaN as "nan".
astype_str(df, col, rows) ==
    [i \in 1..Len(df) |->
        [df[i] EXCEPT ![col] =
            IF is_numeric_dtype(rows, col) /\ HasNA(rows, col) THEN FloatStr(@) ELSE @]]

\* pd.to_numeric(errors="coerce") on the column col: what is not a number
\* becomes NaN.
to_numeric(df, col) ==
    [i \in 1..Len(df) |->
        [df[i] EXCEPT ![col] = IF @ \in {"1", "2", "3"} THEN @ ELSE NA]]

\* Mutant of dropna: no row is dropped.
dropna_Keep(df, cols) == df

\* DataFrame.dropna(subset=cols)
dropna(df, cols) ==
    TakeRows(df, {i \in 1..Len(df) : \A c \in cols : df[i][c] # NA})

\* No value of the column occurs twice.
IsUnique(df, col) ==
    \A i \in 1..Len(df), j \in 1..Len(df) : df[i][col] = df[j][col] => i = j

\* pd.merge(left, right, on="id", how="inner", validate="one_to_one"): the
\* rows of left that have a partner in right, in the order of left;
\* MergeError when an id is repeated on a side.
merge(left, right) ==
    IF ~IsUnique(left, "id") \/ ~IsUnique(right, "id")
    THEN [raised |-> TRUE, rows |-> <<>>]
    ELSE LET l == TakeRows(left, {i \in 1..Len(left) :
                        \E j \in 1..Len(right) : right[j].id = left[i].id})
         IN  [raised |-> FALSE,
              rows |-> [k \in 1..Len(l) |->
                  [id |-> l[k].id, target |-> l[k].target,
                   prediction |->
                       right[CHOOSE j \in 1..Len(right) : right[j].id = l[k].id].prediction]]]

\* Lines 347-354: the labels of the two sides are brought to one type.
AlignLabels(m, gt_file, user_file) ==
    IF is_numeric_dtype(gt_file, "target") /\ ~is_numeric_dtype(user_file, "prediction")
    THEN to_numeric(m, "prediction")
    ELSE IF ~is_numeric_dtype(gt_file, "target") /\ is_numeric_dtype(user_file, "prediction")
    THEN astype_str(m, "prediction", user_file)
    ELSE m

\* load_gt_from_github, lines 77-83: the first row of every id
load_gt(gt_file) == drop_duplicates(gt_file, "id")

\* Lines 321-359: the outcome of the join and the rows the score is
\* computed on.
Evaluation(gt_file, user_file) ==
    LET gt_df == astype_str(load_gt(gt_file), "id", gt_file)
        user_df == dropna(astype_str(drop_duplicates(user_file, "id"), "id", user_file),
                          {"prediction"})
        m == merge(gt_df, user_df)
    IN  IF m.raised THEN [outcome |-> "raised", rows |-> <<>>]
        ELSE IF m.rows = <<>> THEN [outcome |-> "abort", rows |-> <<>>]
        ELSE [outcome |-> "evaluated",
              rows |-> dropna(AlignLabels(m.rows, gt_file, user_file),
                              {"target", "prediction"})]

InitJoin ==
    /\ InitApp
    /\ history = <<>> /\ leaderboard = None
    /\ gt_rows \in GtFiles /\ user_rows \in UserFiles /\ merged = None

Evaluate ==
    /\ merged = None
    /\ merged' = Some(Evaluation(gt_rows, user_rows))
    /\ UNCHANGED <<appVars, history, leaderboard, gt_rows, user_rows>>

NextJoin == Evaluate

SpecJoin == InitJoin /\ [][NextJoin]_vars

(***************************************************************************)
(* Properties.                                                             *)
(***************************************************************************)
\* The log as a reader without cache sees it (no log: no rows).
LogRows ==
    LET got == read_log_from_github_nocache(blob)
    IN  IF IsNone(got.df) THEN <<>> ELSE Val(got.df)

Count(x, seq) == Cardinality({i \in DOMAIN seq : seq[i] = x})

Failures == {"conflict", "transient", "auth"}

\* Lines 173-191 are never reached: the loop always leaves an exception or
\* returns.
TypeOK ==
    /\ blob.exists \in BOOLEAN
    /\ \A s \in Sessions : pc[s] \in Terminal \cup {"read", "put", "returned", "report", "abort"}
    /\ \A s \in Sessions : call[s].result \in Failures \cup {"none", "ok", "dedup"}

\* C1: no lost update.  Every step leaves the log as it is or is the
\* accepted put of a session, which replaces the log by the log that the
\* session read in this attempt, still the current one, with the session's
\* row added at the end; no step removes or changes a record.
C1_NoLostUpdate ==
    [][ \/ LogRows' = LogRows
        \/ \E s \in Sessions :
              /\ pc[s] = "put"
              /\ LogRows = (IF IsNone(call[s].df) THEN <<>> ELSE Val(call[s].df))
              /\ LogRows' = Append(LogRows, call[s].row) ]_vars

\* C1 witness: two sessions have appended, the second after a conflict.
C1_Witness ==
    /\ Len(LogRows) = 2
    /\ acked[1].session # acked[2].session
    /\ \E s \in Sessions :
          pc[s] = "returned" /\ call[s].result = "ok" /\ call[s].attempt >= 1

\* The rows a run submits, one per selected mode.
Submitted(s) == {BuildRow(run[s], run[s].modes[j]) : j \in 1..Len(run[s].modes)}

\* Every call of the run of s has returned without raising.
AllCallsReturned(s) ==
    /\ run[s].errors = <<>>
    /\ \/ pc[s] = "report"
       \/ pc[s] = "returned" /\ run[s].i = Len(run[s].modes)
                             /\ call[s].result \in {"ok", "dedup"}

\* C2: the sessions run once each, at the same time, from a log that does
\* not exist, with rows of pairwise distinct dedup keys; when all their calls
\* have returned the log holds exactly the submitted rows, each once.
C2_ExactlyN ==
    LET rows == UNION {Submitted(s) : s \in Sessions}
    IN  ( /\ clock = Cardinality(Sessions)
          /\ \A s \in Sessions : AllCallsReturned(s)
          /\ \A r1, r2 \in rows : r1 # r2 => DedupKey(r1) # DedupKey(r2) )
        => /\ Len(LogRows) = Cardinality(rows)
           /\ \A r \in rows : Count(r, LogRows) = 1

\* C2 witness: both sessions have appended a row of their own key, the
\* first put created the log without a sha and the other session lost the
\* race at least once.
C2_Witness ==
    /\ clock = Cardinality(Sessions)
    /\ \A s \in Sessions : AllCallsReturned(s)
    /\ \A r1, r2 \in UNION {Submitted(s) : s \in Sessions} :
          r1 # r2 => DedupKey(r1) # DedupKey(r2)
    /\ Len(LogRows) = 2
    /\ \E s \in Sessions :
          pc[s] = "returned" /\ call[s].attempt >= 1 /\ call[s].last_exc = "conflict"

\* The records of the log that session s appended under the key k.
RecordsOf(s, k) ==
    LET log == LogRows
    IN  {i \in DOMAIN log :
            /\ DedupKey(log[i]) = k
            /\ \E j \in DOMAIN acked : acked[j].session = s /\ acked[j].row = log[i]}

\* C3: a call whose key the session has already logged returns without a
\* read or a put, and the log holds exactly one record of that session with
\* that key; no session ever has two records with one key.
C3_DedupWithinSession ==
    \A s \in Sessions :
        /\ \A k \in {DedupKey(acked[j].row) : j \in DOMAIN acked} :
              Cardinality(RecordsOf(s, k)) <= 1
        /\ (pc[s] = "returned" /\ call[s].result = "dedup")
             => /\ call[s].reads = 0 /\ call[s].puts = 0
                /\ Cardinality(RecordsOf(s, DedupKey(call[s].row))) = 1

\* C3 witness: a second call with a key the session logged in an earlier run.
C3_Witness ==
    \E s \in Sessions :
        /\ pc[s] = "returned" /\ call[s].result = "dedup"
        /\ \E j \in DOMAIN acked :
              /\ acked[j].session = s
              /\ DedupKey(acked[j].row) = DedupKey(call[s].row)
              /\ acked[j].row.timestamp_utc < call[s].row.timestamp_utc

\* C4: the call gives up on a conflict only after RetryLimit puts; a put
\* accepted after K < RetryLimit conflicts ends the call successfully, with
\* the row in the log exactly once.
C4_ConflictRetryConverges ==
    \A s \in Sessions :
        /\ (pc[s] = "returned" /\ call[s].result = "conflict")
             => call[s].puts = RetryLimit
        /\ (pc[s] \in {"read", "put"} /\ call[s].last_exc = "conflict")
             => call[s].attempt \in 1..(RetryLimit - 1) /\ call[s].puts = call[s].attempt
        /\ (pc[s] = "returned" /\ call[s].result = "ok")
             => /\ call[s].attempt \in 0..(RetryLimit - 1)
                /\ call[s].puts = call[s].attempt + 1
                /\ Count(call[s].row, LogRows) = 1

\* C4 witness: four conflicts, then the fifth put is accepted.
C4_Witness ==
    \E s \in Sessions :
        /\ pc[s] = "returned" /\ call[s].result = "ok"
        /\ call[s].attempt = RetryLimit - 1 /\ call[s].last_exc = "conflict"

\* C5: a call that ends on a conflict has made exactly RetryLimit reads and
\* RetryLimit puts and has left no record in the log; a put that is not
\* accepted leaves the blob as it was.
C5_RetryExhaustion ==
    /\ [](\A s \in Sessions :
            (pc[s] = "returned" /\ call[s].result = "conflict")
              => /\ call[s].reads = RetryLimit /\ call[s].puts = RetryLimit
                 /\ Count(call[s].row, LogRows) = 0)
    /\ [][\A s \in Sessions :
            (pc[s] = "put" /\ pc'[s] = "returned" /\ call'[s].result = "conflict")
              => blob' = blob]_vars

\* C5 witness: the fifth conflict in a row has ended the call.
C5_Witness ==
    \E s \in Sessions :
        /\ pc[s] = "returned" /\ call[s].result = "conflict"
        /\ call[s].reads = RetryLimit

C7_AuthFatal ==
    \A s \in Sessions :
        call[s].last_exc = "auth"
          => /\ pc[s] = "returned" /\ call[s].result = "auth"
             /\ call[s].reads = call[s].attempt + 1
             /\ call[s].puts <= call[s].reads
             /\ Count(call[s].row, LogRows) = 0

\* C7 witness: the put of the first attempt failed on authentication.
C7_Witness ==
    \E s \in Sessions :
        /\ pc[s] = "returned" /\ call[s].result = "auth"
        /\ call[s].reads = 1 /\ call[s].puts = 1

\* C8: a call that raises has added no record (none of its puts was
\* accepted) and has not marked its key, so that the session's next call
\* with this key is not skipped.
C8_FailedAppendNoEffect ==
    \A s \in Sessions :
        (pc[s] = "returned" /\ call[s].result \in Failures)
          => /\ Count(call[s].row, LogRows) = 0
             /\ \A j \in DOMAIN acked : acked[j].row # call[s].row
             /\ DedupKey(call[s].row) \notin session_state[s]
             /\ EnterCall([run[s] EXCEPT !.timestamp_utc = @ + 1], session_state[s]).pc = "read"

\* C8 witness: a call has raised after a put that the store refused.
C8_Witness ==
    \E s \in Sessions :
        /\ pc[s] = "returned" /\ call[s].result \in Failures
        /\ call[s].puts >= 1

\* What the next read_log_from_github returns when the request succeeds.
NextCachedRead == read_log_from_github(cache, blob, "ok").value

C10_ModesIndependent ==
    \A s \in Sessions :
        pc[s] = "report"
          => /\ Len(run[s].ok_modes) + Len(run[s].errors) = Len(run[s].modes)
             /\ \A j \in DOMAIN run[s].modes :
                  LET m == run[s].modes[j]
                      row == BuildRow(run[s], m)
                      ok == \E k \in DOMAIN run[s].ok_modes : run[s].ok_modes[k] = m
                      failed == \E k \in DOMAIN run[s].errors : run[s].errors[k] = m
                  IN  /\ ok # failed
                      /\ ok => Cardinality(RecordsOf(s, DedupKey(row))) = 1
                      /\ failed => Count(row, LogRows) = 0

\* C10 witness: of two selected modes the first failed and the second was
\* published.
C10_Witness ==
    \E s \in Sessions :
        /\ pc[s] = "report" /\ Len(run[s].modes) = 2
        /\ run[s].errors = <<run[s].modes[1]>>
        /\ run[s].ok_modes = <<run[s].modes[2]>>
        /\ Count(BuildRow(run[s], run[s].modes[2]), LogRows) = 1

\* C11: the dedup does not suppress across sessions or users.  A call is
\* skipped only when this very session has logged the key for this very
\* user_id; a key logged by another session, or logged for another user_id,
\* does not make the call return without an attempt.
C11_NoSuppressAcrossUsers ==
    \A s \in Sessions :
        (pc[s] = "returned" /\ call[s].result = "dedup")
          => \E j \in DOMAIN acked :
                /\ acked[j].session = s
                /\ DedupKey(acked[j].row) = DedupKey(call[s].row)
                /\ acked[j].row.user_id = call[s].row.user_id

\* C12: the leaderboard is always available.  A run that is over has reached
\* show_public_leaderboards(): at the end of the script (done) or before the
\* st.stop() of an evaluation error (stopped); no run ends anywhere else, in
\* particular not a run that skipped the evaluation.
C12_LeaderboardAlwaysShown ==
    \A s \in Sessions : pc[s] \in Terminal => pc[s] \in {"idle", "done", "stopped"}

\* C13: a failed append does not hide the score.  While the appends of a run
\* are under way or over, the score of the run is on the page; an append
\* that raises leaves it there, puts its mode into errors (reported as not
\* published on line 402) and the publish loop goes on; the run then ends
\* by showing the leaderboard.
C13_FailedAppendKeepsScore ==
    /\ [](\A s \in Sessions :
            pc[s] \in {"read", "put", "returned", "report"}
              => run[s].f1_shown = Some(run[s].upload.f1))
    /\ [][\A s \in Sessions :
            /\ (pc[s] = "returned" /\ call[s].result \in Failures /\ run'[s] # run[s])
                 => /\ pc'[s] \in {"read", "returned", "report"}
                    /\ run'[s].errors = Append(run[s].errors, run[s].modes[run[s].i])
                    /\ run'[s].ok_modes = run[s].ok_modes
                    /\ run'[s].f1_shown = run[s].f1_shown
            /\ (pc[s] = "report" /\ pc'[s] # "report") => pc'[s] = "done"]_vars

\* C13 witness: the publish loop is over, the score is on the page and the
\* only selected mode is reported as not published after a refused put.
C13_Witness ==
    \E s \in Sessions :
        /\ pc[s] = "report"
        /\ run[s].f1_shown = Some(80)
        /\ Len(run[s].modes) = 1 /\ run[s].errors = run[s].modes
        /\ Count(BuildRow(run[s], run[s].modes[1]), LogRows) = 0

\* The users of a table, compared after trimming and lower-casing.
UsersOf(df) == {Lower(Strip(df[i].user_id)) : i \in 1..Len(df)}

\* C14: the leaderboard shows one entry per distinct user of the history;
\* the entry is a record of that user than which the user has none with a
\* higher score, nor one with the same score and a later timestamp (so no
\* lower-scoring record of a user appears); the entries are in descending
\* order of score, then of timestamp.
C14_LeaderboardProjection ==
    ~IsNone(leaderboard) =>
        LET lb == Val(leaderboard)
        IN  /\ UsersOf(lb) = UsersOf(history)
            /\ Len(lb) = Cardinality(UsersOf(history))
            /\ \A i \in 1..Len(lb) :
                  /\ \E j \in 1..Len(history) :
                        lb[i] = [c \in DOMAIN lb[i] |-> history[j][c]]
                  /\ \A j \in 1..Len(history) :
                        Lower(Strip(history[j].user_id)) = Lower(Strip(lb[i].user_id))
                          => \/ history[j].f1_weighted < lb[i].f1_weighted
                             \/ /\ history[j].f1_weighted = lb[i].f1_weighted
                                /\ history[j].timestamp_utc <= lb[i].timestamp_utc
            /\ \A i \in 1..Len(lb), j \in 1..Len(lb) :
                  i < j => \/ lb[i].f1_weighted > lb[j].f1_weighted
                           \/ /\ lb[i].f1_weighted = lb[j].f1_weighted
                              /\ lb[i].timestamp_utc >= lb[j].timestamp_utc

\* C14 witness: a user with a higher and, later, a lower score under names
\* that differ in case and blanks, and a second user with the lower score:
\* two entries, the first user's best record first.
C14_Witness ==
    /\ ~IsNone(leaderboard)
    /\ Len(history) = 3
    /\ history[1].user_id = "Ana " /\ history[1].f1_weighted = 80
    /\ history[2].user_id = "ana" /\ history[2].f1_weighted = 60
    /\ history[2].timestamp_utc > history[1].timestamp_utc
    /\ history[3].user_id = "bob" /\ history[3].f1_weighted = 60
    /\ Len(Val(leaderboard)) = 2
    /\ Val(leaderboard)[1].user_id = "Ana "

Min(a, b) == IF a <= b THEN a ELSE b

\* The ids in the column id of a table.
IdsOf(rows) == {rows[i].id : i \in 1..Len(rows)}

\* C15, as claimed: the evaluated set holds exactly the ids that occur both
\* in the ground truth and in the submission, each once; it has at most
\* min(ground-truth rows, submission rows) rows; nothing is raised.
C15_JoinAllCommonIds ==
    ~IsNone(merged) =>
        /\ Val(merged).outcome # "raised"
        /\ IdsOf(Val(merged).rows) = (IdsOf(gt_rows) \cap IdsOf(user_rows)) \ {NA}
        /\ IsUnique(Val(merged).rows, "id")
        /\ Len(Val(merged).rows) <= Min(Len(gt_rows), Len(user_rows))

\* The text under which the id of row i takes part in the join.
IdText(rows, i) == IF HasNA(rows, "id") THEN FloatStr(rows[i].id) ELSE rows[i].id

\* Row i is the first row of its id in the file.
FirstOfId(rows, i) == \A j \in 1..(i - 1) : rows[j].id # rows[i].id

\* Ground-truth row i and submission row j are joined: each is the first
\* row of its id, the ids are the same text and the prediction is not empty.
Joined(i, j) ==
    /\ FirstOfId(gt_rows, i) /\ FirstOfId(user_rows, j)
    /\ IdText(gt_rows, i) = IdText(user_rows, j)
    /\ user_rows[j].prediction # NA

\* The labels of the joined rows are usable: the target is not empty, and
\* the prediction is a number when the targets are numbers and the
\* predictions of the file are not all numbers.
LabelsValid(i, j) ==
    /\ gt_rows[i].target # NA
    /\ (is_numeric_dtype(gt_rows, "target") /\ ~is_numeric_dtype(user_rows, "prediction"))
          => user_rows[j].prediction \in {"1", "2", "3"}

\* C15, amended: the evaluated set holds exactly the ids, as the texts
\* astype(str) gives them, of the ground-truth rows joined with a
\* submission row whose labels are valid, each once; rows with an empty
\* prediction and later rows of a repeated id take no part.  It has at most
\* min(ground-truth rows, submission rows) rows, ids on one side only are
\* dropped and nothing is raised; the evaluation aborts exactly when no
\* row is joined.
C15_JoinValidCommonIds ==
    ~IsNone(merged) =>
        LET pairs == {p \in (1..Len(gt_rows)) \X (1..Len(user_rows)) : Joined(p[1], p[2])}
        IN  /\ Val(merged).outcome # "raised"
            /\ Val(merged).outcome = "abort" <=> pairs = {}
            /\ IdsOf(Val(merged).rows) =
                  {IdText(gt_rows, p[1]) : p \in {q \in pairs : LabelsValid(q[1], q[2])}}
            /\ IsUnique(Val(merged).rows, "id")
            /\ Len(Val(merged).rows) <= Min(Len(gt_rows), Len(user_rows))

\* C15 witness: of two ids that occur on both sides, one has an empty
\* prediction and only the other is evaluated.
C15_Witness ==
    /\ ~IsNone(merged)
    /\ Val(merged).outcome = "evaluated"
    /\ IdsOf(gt_rows) = {"1", "2"} /\ IdsOf(user_rows) = {"1", "2"}
    /\ \E j \in 1..Len(user_rows) : user_rows[j].id = "2" /\ user_rows[j].prediction = NA
    /\ IdsOf(Val(merged).rows) = {"1"}

\* C16: no append without a score.  A call of append_log_row_to_github is
\* under way or over only in a run whose evaluation gave a score, and every
\* row ever put comes from a scored file; the step in which an evaluation
\* aborts leaves the log, the session state and the call variables alone,
\* and an aborted run ends by showing the leaderboard and stopping, the log
\* still as it was.
C16_NoAppendWithoutScore ==
    /\ [](\A s \in Sessions :
            /\ (pc[s] \in {"read", "put", "returned", "report"} \/ call[s] # NoCall)
                 => run[s].upload.eval = "scored"
            /\ pc[s] \in {"abort", "stopped"} => call[s] = NoCall
            /\ \A j \in DOMAIN acked :
                  \E u \in Uploads : u.eval = "scored" /\ u.file_sha256 = acked[j].row.file_sha256)
    /\ [][\A s \in Sessions :
            /\ (pc[s] # "abort" /\ pc'[s] = "abort")
                 => blob' = blob /\ session_state' = session_state /\ acked' = acked
            /\ (pc[s] = "abort" /\ pc'[s] # "abort")
                 => pc'[s] = "stopped" /\ blob' = blob /\ acked' = acked
            /\ (pc[s] # "stopped" /\ pc'[s] = "stopped") => pc[s] = "abort"]_vars

\* C16 witness: a run whose evaluation aborted has shown the leaderboard and
\* stopped; the log holds the one row of an earlier run.
C16_Witness ==
    \E s \in Sessions :
        /\ pc[s] = "stopped" /\ call[s] = NoCall
        /\ Len(LogRows) = 1 /\ Len(acked) = 1

\* C17: every put is conditioned on a fresh version.  The table and the sha
\* a call holds when it puts are those its uncached read returned in the
\* same attempt (no sha when the log was not found): the put follows that
\* read with nothing of the call changed in between, every attempt reads
\* again, and the cached read of lines 173-191 is never reached.  A put that
\* changes the log was sent with the sha the log had and puts the table
\* read with the row added.
C17_PutOnFreshVersion ==
    /\ [](\A s \in Sessions :
            /\ pc[s] # "tail"
            /\ pc[s] = "put"
                 => /\ call[s].reads = call[s].attempt + 1
                    /\ call[s].puts = call[s].attempt
                    /\ IsNone(call[s].df) => call[s].sha = 0)
    /\ [][\A s \in Sessions :
            /\ (pc[s] # "put" /\ pc'[s] = "put")
                 => /\ pc[s] = "read"
                    /\ call'[s].attempt = call[s].attempt
                    /\ call'[s].df = read_log_from_github_nocache(blob).df
                    /\ call'[s].sha = read_log_from_github_nocache(blob).sha
            /\ (pc[s] = "put" /\ pc'[s] = "put") => call'[s] = call[s]
            /\ (pc[s] = "put" /\ blob' # blob /\ call'[s] # call[s])
                 => /\ PutPrecondition(blob, call[s].sha)
                    /\ blob'.content = to_csv(NewDf(call[s].df, call[s].row))]_vars

\* C17 witness: a call is about to put in a later attempt, with the sha of
\* the log as it is now, which is not the one its first attempt read, while
\* the cache holds an entry.
C17_Witness ==
    \E s \in Sessions :
        /\ pc[s] = "put" /\ call[s].attempt >= 1
        /\ call[s].sha = blob.sha /\ blob.sha >= 1
        /\ ~IsNone(cache)

\* C18: only the log is written, and only by the append loop.  No step
\* changes the ground truth; a step that changes the log is the accepted put
\* of a call of append_log_row_to_github, which replaces the log by the
\* table the call read with its row added.  Starting a run, reading for the
\* leaderboard, a refused put and the expiry of the cache write nothing.
C18_OnlyAppendWrites ==
    [][ /\ gt_rows' = gt_rows
        /\ blob' # blob
             => \E s \in Sessions :
                   /\ pc[s] = "put" /\ pc'[s] = "returned"
                   /\ call'[s].result = "ok" /\ call'[s].puts = call[s].puts + 1
                   /\ blob' = put_contents(blob, to_csv(NewDf(call[s].df, call[s].row))) ]_vars

\* C18 witness: a run is over after the leaderboard read a log that did not
\* exist, and the log is still not there; the other session has been
\* refused a put.
C18_Witness ==
    /\ ~blob.exists
    /\ ~IsNone(cache) /\ IsNone(Val(cache).df)
    /\ \E s, s2 \in Sessions :
          /\ pc[s] \in {"done", "stopped"}
          /\ pc[s2] = "returned" /\ call[s2].result \in Failures /\ call[s2].puts >= 1

\* C19: marked implies logged.  For every key set in a session's state a
\* put of that session with a row of that key was accepted and the row is
\* in the log; the state of a session changes only in the step in which its
\* put is accepted, never in a call that fails.
C19_MarkedImpliesLogged ==
    /\ [](\A s \in Sessions : \A k \in session_state[s] :
            \E j \in DOMAIN acked :
                /\ acked[j].session = s /\ DedupKey(acked[j].row) = k
                /\ Count(acked[j].row, LogRows) >= 1)
    /\ [][\A s \in Sessions :
            session_state'[s] # session_state[s]
              => /\ pc[s] = "put" /\ call'[s].result = "ok" /\ blob' # blob
                 /\ session_state'[s] = session_state[s] \cup {DedupKey(call[s].row)}]_vars

\* C19 witness: a session has its key marked and its row logged, while the
\* other session, whose call for the same key gave up after the last
\* conflict, has nothing marked.
C19_Witness ==
    \E s, s2 \in Sessions :
        /\ session_state[s] # {} /\ session_state[s2] = {}
        /\ pc[s2] = "returned" /\ call[s2].result = "conflict"
        /\ DedupKey(call[s2].row) \in session_state[s]

\* C20: bounded termination.  A call sends at most RetryLimit reads and
\* RetryLimit puts; while it is not over, its next request can always be
\* answered and every answer adds one to the requests sent, so the call
\* ends; it ends by returning after an accepted put or a dedup hit, or by
\* raising the last exception caught, and in no other way.
C20_BoundedTermination ==
    /\ [](\A s \in Sessions :
            /\ call[s].reads <= RetryLimit /\ call[s].puts <= RetryLimit
            /\ call[s].puts <= call[s].reads
            /\ pc[s] # "tail"
            /\ pc[s] \in {"read", "put"}
                 => call[s].result = "none" /\ ENABLED (ReadLog(s) \/ PutLog(s))
            /\ pc[s] = "returned"
                 => \/ /\ call[s].result = "ok"
                       /\ \E j \in DOMAIN acked : acked[j] = [row |-> call[s].row, session |-> s]
                    \/ /\ call[s].result = "dedup"
                       /\ call[s].reads = 0 /\ call[s].puts = 0
                       /\ DedupKey(call[s].row) \in session_state[s]
                    \/ /\ call[s].result \in Failures
                       /\ call[s].result = call[s].last_exc)
    /\ [][\A s \in Sessions :
            (pc[s] \in {"read", "put"} /\ call'[s] # call[s])
              => call'[s].reads + call'[s].puts = call[s].reads + call[s].puts + 1]_vars

\* C20 witness: two conflicts, then a transient failure of the third put
\* has ended the call, which raises it.
C20_Witness ==
    \E s \in Sessions :
        /\ pc[s] = "returned" /\ call[s].result = "transient"
        /\ call[s].reads = 3 /\ call[s].puts = 3

====
